---- MODULE Spec2Model ----
(***************************************************************************)
(* A model of the nexus application kernel: ServiceContainer, Service,     *)
(* ServiceLocator, EventBus, LayerStack and Application.                    *)
(*                                                                         *)
(* The process is single threaded.  Every synchronous call is one action.  *)
(* An async container call is a record in `calls`: it advances when the    *)
(* hook it awaits settles, and the continuations that the settlement      *)
(* releases (microtasks) run in that same action, in the order of the      *)
(* code.  Hooks are inputs: which of them fail is chosen in the action     *)
(* that runs them.                                                         *)
(***************************************************************************)
EXTENDS Integers, Sequences, FiniteSets, TLC

VARIABLES
    services,          \* ServiceContainer.services, per container: the Map in insertion order
    Initialized,       \* Service.Initialized, per service instance
    calls,             \* the async ServiceContainer.Initialize / Shutdown calls in flight, oldest first
    container,         \* ServiceLocator.container (NoContainer = null)
    emitFunction,      \* EventBus.emitFunction (NoApp = null), named by the application it is bound to
    layers,            \* LayerStack.layers
    layerInsertIndex,  \* LayerStack.layerInsertIndex
    consumed,          \* Event.consumed of the envelope in hand
    apps,              \* how many `new Application(...)` were evaluated: "none", "one", "several"
    running,           \* Application.running
    pendingTicks,      \* Tick callbacks queued with setImmediate
    exited,            \* status handed to process.exit (NoExit while the process lives)
    closed,            \* history: Application.Close has been called
    specification,     \* Application.specification.Name of the application whose state is kept
    logName,           \* Log.specification.Name
    pushed,            \* history: the layers pushed on each side of the stack and not removed since
    last               \* the most recent call: what it was given, the hooks it invoked, how it ended

svcVars   == <<services, Initialized, calls, container>>
stackVars == <<layers, layerInsertIndex, pushed>>
nameVars  == <<specification, logName>>
appVars   == <<apps, running, pendingTicks, exited, closed, emitFunction, nameVars>>
vars      == <<services, Initialized, calls, container, emitFunction, layers,
               layerInsertIndex, consumed, apps, running, pendingTicks, exited,
               closed, specification, logName, pushed, last>>

\* ---------------------------------------------------------------- domains
Containers  == {"c1", "c2"}
NoContainer == "null"
AppContainer == "c1"          \* the container owned by the first Application
Registries  == {"c1"}         \* the containers whose contents are explored; "c2" stays empty
Ids         == {"X", "Y"}     \* service classes, used as ServiceIdentifier
Insts       == {"x1", "x2", "y1"}
NoInst      == "undefined"
Layers      == {"A", "B", "C"}
Names       == {"App1", "App2"}   \* ApplicationSpecification.Name
NoName      == "undefined"        \* no application, no specification
DefaultLogName == "NexusApp"        \* the Name the Log starts with
NoApp       == "null"
NoExit      == 0 - 1          \* no status: process.exit has not been called

MaxLayers   == 3              \* longest layer sequence explored
MaxCalls    == 2              \* most async container calls in flight at once
MaxPending  == 1              \* most Tick callbacks queued at once
MaxAppLayers == 2             \* longest layer sequence explored in an application

\* Register<T>(identifier: ServiceIdentifier<T>, instance: T): the instance is of the class
ClassOf(inst) == IF inst \in {"x1", "x2"} THEN "X" ELSE "Y"

\* ---------------------------------------------------------------- outcomes
Return(v)      == [kind |-> "return", val |-> v, about |-> ""]
Throw(e, what) == [kind |-> "throw", val |-> e, about |-> what]
Void           == Return("void")
Bool(b)        == IF b THEN "true" ELSE "false"

\* what a call was (op, arg), the hooks it invoked in order, how it ended, whether a hook
\* re-entered the stack, and two counts whose meaning depends on the call
Outcome(op, arg, hooks, ret, reent, mark, sched) ==
    [op |-> op, arg |-> arg, hooks |-> hooks, ret |-> ret, reent |-> reent,
     mark |-> mark, sched |-> sched]

\* ---------------------------------------------------------------- Map
MapHas(m, id) == \E k \in 1..Len(m) : m[k].id = id

MapGet(m, id) ==
    IF MapHas(m, id) THEN m[CHOOSE k \in 1..Len(m) : m[k].id = id].inst ELSE NoInst

MapSet(m, id, inst) ==
    IF MapHas(m, id)
    THEN [k \in 1..Len(m) |-> IF m[k].id = id THEN [id |-> id, inst |-> inst] ELSE m[k]]
    ELSE Append(m, [id |-> id, inst |-> inst])

\* ---------------------------------------------------------------- Array
\* Array.prototype.splice(i, 0, x) and splice(i, 1), i counted from 0
\* splice(i, 0, x): a start below zero counts from the end, and the start is kept
\* within 0..length
SpliceIn(s, i, x) ==
    LET n == Len(s)
        start == IF i < 0 THEN (IF n + i < 0 THEN 0 ELSE n + i)
                 ELSE (IF i > n THEN n ELSE i)
    IN  SubSeq(s, 1, start) \o <<x>> \o SubSeq(s, start + 1, n)

SpliceOut(s, i)   == SubSeq(s, 1, i) \o SubSeq(s, i + 2, Len(s))

\* Array.prototype.indexOf: first position counted from 0, -1 when absent
IndexOf(s, x) ==
    IF \E k \in 1..Len(s) : s[k] = x
    THEN (CHOOSE k \in 1..Len(s) : s[k] = x /\ \A j \in 1..(k - 1) : s[j] # x) - 1
    ELSE -1

RECURSIVE Reverse(_)
Reverse(s) == IF s = <<>> THEN <<>> ELSE Append(Reverse(Tail(s)), Head(s))

\* ---------------------------------------------------------------- Init
Init ==
    /\ services = [c \in Containers |-> <<>>]
    /\ Initialized = [i \in Insts |-> FALSE]
    /\ calls = <<>>
    /\ container = NoContainer
    /\ emitFunction = NoApp
    /\ layers = <<>>
    /\ layerInsertIndex = 0
    /\ consumed = FALSE
    /\ apps = "none"
    /\ running = FALSE
    /\ pendingTicks = 0
    /\ exited = NoExit
    /\ closed = FALSE
    /\ specification = NoName
    /\ logName = DefaultLogName
    /\ pushed = [regular |-> <<>>, overlay |-> <<>>, only |-> TRUE]
    /\ last = Outcome("", <<>>, <<>>, Void, FALSE, 0, 0)

Alive == exited = NoExit

\* ---------------------------------------------------------------- LayerStack
Stack == [layers |-> layers, idx |-> layerInsertIndex]

\* what a layer's OnUpdate hook may do besides returning
UpdateActs == {"nop", "PopLayer", "PopOverlay"}
\* what a layer's OnEvent hook may do besides returning
EventActs  == {"nop", "Consume", "PopLayer", "PopOverlay"}

\* a plausible slip: push() instead of splice() at the insert index
PushLayer_AtEnd(st, l) ==
    [layers |-> Append(st.layers, l), idx |-> st.idx + 1]

LayerStack_PushLayer(st, l) ==
    [layers |-> SpliceIn(st.layers, st.idx, l), idx |-> st.idx + 1]

\* a plausible slip: the overlay is inserted at the insert index
PushOverlay_AtIndex(st, l) ==
    [layers |-> SpliceIn(st.layers, st.idx, l), idx |-> st.idx]

LayerStack_PushOverlay(st, l) ==
    [layers |-> Append(st.layers, l), idx |-> st.idx]

\* detachThrows: the layer's OnDetach hook throws
\* a plausible slip: the test of the side of the insert index is missing
PopLayer_AnySide(st, l, detachThrows) ==
    LET index == IndexOf(st.layers, l) IN
    IF index > -1
    THEN IF detachThrows
         THEN [st |-> st, hooks |-> <<l>>, ret |-> Throw("DetachError", l)]
         ELSE [st |-> [layers |-> SpliceOut(st.layers, index), idx |-> st.idx - 1],
               hooks |-> <<l>>, ret |-> Void]
    ELSE [st |-> st, hooks |-> <<>>, ret |-> Void]

LayerStack_PopLayer(st, l, detachThrows) ==
    LET index == IndexOf(st.layers, l) IN
    IF index > -1 /\ index < st.idx
    THEN IF detachThrows
         THEN [st |-> st, hooks |-> <<l>>, ret |-> Throw("DetachError", l)]
         ELSE [st |-> [layers |-> SpliceOut(st.layers, index), idx |-> st.idx - 1],
               hooks |-> <<l>>, ret |-> Void]
    ELSE [st |-> st, hooks |-> <<>>, ret |-> Void]

\* a plausible slip: the decrement of PopLayer copied into PopOverlay
PopOverlay_MovesIndex(st, l, detachThrows) ==
    LET index == IndexOf(st.layers, l) IN
    IF index > -1 /\ index >= st.idx
    THEN IF detachThrows
         THEN [st |-> st, hooks |-> <<l>>, ret |-> Throw("DetachError", l)]
         ELSE [st |-> [layers |-> SpliceOut(st.layers, index), idx |-> st.idx - 1],
               hooks |-> <<l>>, ret |-> Void]
    ELSE [st |-> st, hooks |-> <<>>, ret |-> Void]

LayerStack_PopOverlay(st, l, detachThrows) ==
    LET index == IndexOf(st.layers, l) IN
    IF index > -1 /\ index >= st.idx
    THEN IF detachThrows
         THEN [st |-> st, hooks |-> <<l>>, ret |-> Throw("DetachError", l)]
         ELSE [st |-> [layers |-> SpliceOut(st.layers, index), idx |-> st.idx],
               hooks |-> <<l>>, ret |-> Void]
    ELSE [st |-> st, hooks |-> <<>>, ret |-> Void]

\* a plausible slip: the other variant, every layer is detached whatever a hook
\* throws, the sequence is cleared and only the result tells of the failure
Shutdown_DetachesAll(st, thrower, nullish) ==
    [st |-> [layers |-> <<>>, idx |-> 0], hooks |-> st.layers,
     ret |-> IF thrower = 0 \/ thrower > Len(st.layers) THEN Return("true")
             ELSE Return("false")]

\* a plausible slip: the array is emptied and the insert index is left as it was
Shutdown_KeepsIndex(st, thrower, nullish) ==
    IF thrower = 0 \/ thrower > Len(st.layers)
    THEN [st |-> [layers |-> <<>>, idx |-> st.idx], hooks |-> st.layers, ret |-> Return("true")]
    ELSE [st |-> st, hooks |-> SubSeq(st.layers, 1, thrower),
          ret |-> IF nullish THEN Throw("TypeError", "") ELSE Return("false")]

\* thrower: which OnDetach call of the loop throws, counted from 1 (0: none does);
\* nullish: what it throws is null or undefined, so that `error.message` in the
\* catch block throws a TypeError, which leaves Shutdown
LayerStack_Shutdown(st, thrower, nullish) ==
    IF thrower = 0 \/ thrower > Len(st.layers)
    THEN [st |-> [layers |-> <<>>, idx |-> 0], hooks |-> st.layers, ret |-> Return("true")]
    ELSE [st |-> st, hooks |-> SubSeq(st.layers, 1, thrower),
          ret |-> IF nullish THEN Throw("TypeError", "") ELSE Return("false")]

\* the ways the OnDetach calls of a Shutdown over n layers can go: <<thrower, nullish>>
DetachWays(n) == {<<0, FALSE>>} \cup ((1..n) \X BOOLEAN)

\* the stack after layer l's hook did `act` (a call back into the stack, on itself)
HookEffect(st, l, act) ==
    CASE act = "PopLayer"   -> LayerStack_PopLayer(st, l, FALSE).st
      [] act = "PopOverlay" -> LayerStack_PopOverlay(st, l, FALSE).st
      [] OTHER              -> st

\* for (const layer of this.layers) layer.OnUpdate(ts): the array iterator reads
\* this.layers[i] while i < this.layers.length, both as they are at that moment
RECURSIVE UpdateLoop(_, _, _, _, _)
UpdateLoop(st, i, beh, visited, reent) ==
    IF i >= Len(st.layers)
    THEN [st |-> st, visited |-> visited, reent |-> reent]
    ELSE LET l   == st.layers[i + 1]
             st2 == HookEffect(st, l, beh[l])
         IN  UpdateLoop(st2, i + 1, beh, Append(visited, l), reent \/ st2 # st)

\* a plausible slip: the pass walks a copy of the array made when it starts
OnUpdate_Snapshot(st, beh) ==
    [UpdateLoop(st, 0, beh, <<>>, FALSE) EXCEPT !.visited = st.layers]

LayerStack_OnUpdate(st, beh) == UpdateLoop(st, 0, beh, <<>>, FALSE)

\* for (let i = this.layers.length - 1; i >= 0; i--) { if (event.Consumed()) break;
\*     this.layers[i].OnEvent(event); }
\* by: the place in `visited` of the hook that consumed the envelope, 0 if none did
RECURSIVE EventLoop(_, _, _, _, _, _, _)
EventLoop(st, i, isConsumed, beh, visited, reent, by) ==
    IF i < 0 \/ isConsumed
    THEN [st |-> st, consumed |-> isConsumed, visited |-> visited, reent |-> reent,
          by |-> by, ret |-> Void]
    ELSE IF i >= Len(st.layers)
    THEN [st |-> st, consumed |-> isConsumed, visited |-> visited, reent |-> reent,
          by |-> by, ret |-> Throw("TypeError", "undefined")]
    ELSE LET l   == st.layers[i + 1]
             st2 == HookEffect(st, l, beh[l])
             c2  == beh[l] = "Consume"
         IN  EventLoop(st2, i - 1, c2, beh, Append(visited, l), reent \/ st2 # st,
                       IF c2 THEN Len(visited) + 1 ELSE by)

\* a plausible slip: the loop tests a flag of its own, which starts false
OnEvent_OwnFlag(st, isConsumed, beh) ==
    EventLoop(st, Len(st.layers) - 1, FALSE, beh, <<>>, FALSE, 0)

LayerStack_OnEvent(st, isConsumed, beh) ==
    EventLoop(st, Len(st.layers) - 1, isConsumed, beh, <<>>, FALSE, 0)

\* the layer objects in the stack: only their hooks can run in a pass
Present == {layers[k] : k \in 1..Len(layers)}

\* one behaviour per layer object for a pass, drawn from acts
Behaviours(acts) ==
    {beh \in [Layers -> acts] : \A l \in Layers \ Present : beh[l] = "nop"}

SetStack(st) ==
    /\ layers' = st.layers
    /\ layerInsertIndex' = st.idx

\* the history after calls made from inside a pass that left the stack as st: it
\* starts again from the two sides of st
NotOnlyPushes(st) ==
    LET n == Len(st.layers)
        \* the entries at positions below the insert index are the regular side
        cut == IF st.idx < 0 THEN 0 ELSE IF st.idx > n THEN n ELSE st.idx
    IN  [regular |-> SubSeq(st.layers, 1, cut),
         overlay |-> SubSeq(st.layers, cut + 1, n),
         only |-> FALSE]

\* the history after a PopLayer ("regular") or PopOverlay ("overlay") call that ended
\* as r: the layer left its side when its OnDetach was invoked and returned
PopHistory(h, side, l, r) ==
    IF r.hooks # <<>> /\ r.ret.kind = "return"
    THEN LET k == IndexOf(h[side], l) IN
         [h EXCEPT ![side] = IF k > -1 THEN SpliceOut(@, k) ELSE @, !.only = FALSE]
    ELSE [h EXCEPT !.only = FALSE]

\* the history after a Shutdown call that ended as r: every layer left when it
\* returned true
ShutdownHistory(h, r) ==
    IF r.ret = Return("true")
    THEN [h EXCEPT !.regular = <<>>, !.overlay = <<>>, !.only = FALSE]
    ELSE [h EXCEPT !.only = FALSE]

PushLayer(l) ==
    /\ Alive
    /\ Len(layers) < MaxLayers
    /\ SetStack(LayerStack_PushLayer(Stack, l))
    /\ pushed' = [pushed EXCEPT !.regular = Append(@, l)]
    /\ last' = Outcome("PushLayer", <<l>>, <<l>>, Void, FALSE, 0, 0)
    /\ UNCHANGED <<svcVars, appVars, consumed>>

PushOverlay(l) ==
    /\ Alive
    /\ Len(layers) < MaxLayers
    /\ SetStack(LayerStack_PushOverlay(Stack, l))
    /\ pushed' = [pushed EXCEPT !.overlay = Append(@, l)]
    /\ last' = Outcome("PushOverlay", <<l>>, <<l>>, Void, FALSE, 0, 0)
    /\ UNCHANGED <<svcVars, appVars, consumed>>

PopLayer(l) ==
    /\ Alive
    /\ \E detachThrows \in BOOLEAN :
         LET r == LayerStack_PopLayer(Stack, l, detachThrows) IN
         /\ SetStack(r.st)
         /\ last' = Outcome("PopLayer", <<l>>, r.hooks, r.ret, FALSE, 0, 0)
         /\ pushed' = PopHistory(pushed, "regular", l, r)
    /\ UNCHANGED <<svcVars, appVars, consumed>>

PopOverlay(l) ==
    /\ Alive
    /\ \E detachThrows \in BOOLEAN :
         LET r == LayerStack_PopOverlay(Stack, l, detachThrows) IN
         /\ SetStack(r.st)
         /\ last' = Outcome("PopOverlay", <<l>>, r.hooks, r.ret, FALSE, 0, 0)
         /\ pushed' = PopHistory(pushed, "overlay", l, r)
    /\ UNCHANGED <<svcVars, appVars, consumed>>

StackShutdown ==
    /\ Alive
    /\ \E way \in DetachWays(Len(layers)) :
         LET r == LayerStack_Shutdown(Stack, way[1], way[2]) IN
         /\ SetStack(r.st)
         \* mark: which OnDetach call threw (0: none)
         /\ last' = Outcome("LayerStack.Shutdown", <<>>, r.hooks, r.ret, FALSE, way[1], 0)
         /\ pushed' = ShutdownHistory(pushed, r)
    /\ UNCHANGED <<svcVars, appVars, consumed>>

OnUpdate ==
    /\ Alive
    /\ \E beh \in Behaviours(UpdateActs) :
         LET r == LayerStack_OnUpdate(Stack, beh) IN
         /\ SetStack(r.st)
         /\ pushed' = IF r.reent THEN NotOnlyPushes(r.st) ELSE pushed
         /\ last' = Outcome("OnUpdate", <<>>, r.visited, Void, r.reent, 1, 0)
    /\ UNCHANGED <<svcVars, appVars, consumed>>

\* new MockEvent(): the emitting code makes a fresh envelope
NewEvent ==
    /\ Alive
    /\ consumed
    /\ consumed' = FALSE
    /\ last' = Outcome("new Event", <<>>, <<>>, Void, FALSE, 0, 0)
    /\ UNCHANGED <<svcVars, appVars, stackVars>>

\* a plausible slip: Consume flips the flag
Consume_Toggles(isConsumed) == ~isConsumed

\* event.Consume(): the new value of the flag
Event_Consume(isConsumed) == TRUE

\* event.Consume() called by the code that holds the envelope
Consume ==
    /\ Alive
    /\ consumed' = Event_Consume(consumed)
    /\ last' = Outcome("Consume", <<>>, <<>>, Void, FALSE, 0, 0)
    /\ UNCHANGED <<svcVars, appVars, stackVars>>

OnEvent ==
    /\ Alive
    /\ \E beh \in Behaviours(EventActs) :
         LET r == LayerStack_OnEvent(Stack, consumed, beh) IN
         /\ SetStack(r.st)
         /\ consumed' = r.consumed
         /\ pushed' = IF r.reent THEN NotOnlyPushes(r.st) ELSE pushed
         /\ last' = Outcome("OnEvent", <<Bool(consumed)>>, r.visited, r.ret, r.reent, r.by, 0)
    /\ UNCHANGED <<svcVars, appVars>>

\* the calls that put layers in the stack and take them out, made one after another
PartitionNext ==
    \/ \E l \in Layers : PushLayer(l)
    \/ \E l \in Layers : PushOverlay(l)
    \/ \E l \in Layers : PopLayer(l)
    \/ \E l \in Layers : PopOverlay(l)
    \/ StackShutdown

SpecPartition == Init /\ [][PartitionNext]_vars

\* the update passes alone, between pushes and pops
UpdateNext ==
    \/ \E l \in Layers : PushLayer(l)
    \/ \E l \in Layers : PushOverlay(l)
    \/ \E l \in Layers : PopLayer(l)
    \/ \E l \in Layers : PopOverlay(l)
    \/ OnUpdate

SpecUpdate == Init /\ [][UpdateNext]_vars

StackNext ==
    \/ \E l \in Layers : PushLayer(l)
    \/ \E l \in Layers : PushOverlay(l)
    \/ \E l \in Layers : PopLayer(l)
    \/ \E l \in Layers : PopOverlay(l)
    \/ StackShutdown
    \/ OnUpdate
    \/ NewEvent
    \/ Consume
    \/ OnEvent

SpecStack == Init /\ [][StackNext]_vars

\* ---------------------------------------------------------------- ServiceContainer
\* a plausible slip: the duplicate check is missing, Map.set rebinds the identifier
Register_Overwrite(m, id, inst) ==
    [services |-> MapSet(m, id, inst), ret |-> Void, warned |-> FALSE]

ServiceContainer_Register(m, id, inst) ==
    IF MapHas(m, id)
    THEN [services |-> m, ret |-> Void, warned |-> TRUE]     \* Log.Warning, return
    ELSE [services |-> MapSet(m, id, inst), ret |-> Void, warned |-> FALSE]

\* a plausible slip: the test of the looked-up value is missing
Get_Unchecked(m, id) == Return(MapGet(m, id))

\* Get changes nothing: it is evaluated on the state it is called in
ServiceContainer_Get(m, id) ==
    LET service == MapGet(m, id) IN
    IF service = NoInst THEN Throw("ServiceNotFound", id) ELSE Return(service)

\* container.Get(identifier) called on its own
ContainerGet(c, id) ==
    /\ Alive
    /\ last' = Outcome("ServiceContainer.Get", <<c, id>>, <<>>,
                       ServiceContainer_Get(services[c], id), FALSE, 0, 0)
    /\ UNCHANGED <<svcVars, stackVars, appVars, consumed>>

Register(c, inst) ==
    /\ Alive
    /\ LET r == ServiceContainer_Register(services[c], ClassOf(inst), inst) IN
       /\ services' = [services EXCEPT ![c] = r.services]
       /\ last' = Outcome("Register", <<c, inst>>, <<>>, r.ret, FALSE,
                          IF r.warned THEN 1 ELSE 0, 0)
    /\ UNCHANGED <<Initialized, calls, container, stackVars, appVars, consumed>>

\* ---- the async calls.  A call in flight awaits the hook of service number idx of
\* the Map; log lists the instances whose hook it has invoked so far.
\*   phase "hook"      the hook's promise is pending
\*   phase "resolved"  the container call's promise resolved
\*   phase "rejected"  the container call's promise rejected with err
\*   owner "ext"       called from outside the kernel
\*   owner "app"       called by Application.Shutdown, which awaits it
\*   fresh             no service was initialized and no other call was in flight when
\*                     the call began, and no other call has begun since
\*   reinit            an init hook completed while this call, made by
\*                     Application.Shutdown, was in flight
\* A settled call leaves `calls` in the step that settles it.
CanCall == Len(calls) < MaxCalls

\* the calls cs with number s set to call (one more than there are: a call begins)
PutCall(cs, s, call) == IF s > Len(cs) THEN Append(cs, call) ELSE [cs EXCEPT ![s] = call]

\* the calls cs without number s
DropCall(cs, s) == SubSeq(cs, 1, s - 1) \o SubSeq(cs, s + 1, Len(cs))

NewCall(kind, c, owner) ==
    [kind |-> kind, c |-> c, owner |-> owner, idx |-> 0, phase |-> "hook",
     err |-> "", log |-> <<>>,
     fresh |-> /\ calls = <<>>
               /\ \A i \in Insts : ~Initialized[i],
     reinit |-> FALSE]

\* a plausible slip: the loop steps over an entry
LoopNext_Skips(call, m) ==
    IF call.idx + 1 < Len(m)
    THEN [call EXCEPT !.idx = @ + 2, !.log = Append(@, m[call.idx + 2].inst)]
    ELSE [call EXCEPT !.phase = "resolved"]

\* the head of `for (const [identifier, service] of this.services)`: a Map iterator
\* is live, it reaches the entries added while the loop is suspended.  The body
\* calls service.Initialize() / Shutdown(), which calls the hook at once.
LoopNext(call, m) ==
    IF call.idx < Len(m)
    THEN [call EXCEPT !.idx = @ + 1, !.log = Append(@, m[call.idx + 1].inst)]
    ELSE [call EXCEPT !.phase = "resolved"]

CallInst(call) == call.log[Len(call.log)]

\* a plausible slip: the catch block logs and forgets to rethrow
Initialize_Swallow(call, m, ok) == LoopNext(call, m)

\* ServiceContainer.Initialize resumed after `await service.Initialize()`;
\* ok: the awaited promise resolved
ServiceContainer_Initialize(call, m, ok) ==
    IF ok
    THEN LoopNext(call, m)
    ELSE [call EXCEPT !.phase = "rejected", !.err = CallInst(call)]   \* catch: Log.Error, throw error

\* a plausible slip: a handler around the await lets the loop go on after a failure
Shutdown_Continues(call, m, ok) == LoopNext(call, m)

\* ServiceContainer.Shutdown resumed after `await service.Shutdown()`
ServiceContainer_Shutdown(call, m, ok) ==
    IF ok
    THEN LoopNext(call, m)
    ELSE [call EXCEPT !.phase = "rejected", !.err = CallInst(call)]   \* no handler in the loop

\* a plausible slip: the flag is set before the hook is awaited
Initialize_FlagFirst(flag, hookOk) == TRUE

\* Service.Initialize after `await this.OnInitialize()`: the new value of Initialized
Service_Initialize(flag, hookOk) == IF hookOk THEN TRUE ELSE flag

\* a plausible slip: Shutdown leaves the flag as it is
Shutdown_KeepsFlag(flag, hookOk) == flag

\* Service.Shutdown after `await this.OnShutdown()`: the new value of Initialized
Service_Shutdown(flag, hookOk) == IF hookOk THEN FALSE ELSE flag

OpName(kind) ==
    IF kind = "init" THEN "ServiceContainer.Initialize" ELSE "ServiceContainer.Shutdown"

CallOutcome(call) ==
    Outcome(OpName(call.kind), <<call.c, Bool(call.fresh)>>, call.log,
            IF call.phase = "resolved" THEN Void ELSE Throw("HookError", call.err),
            FALSE, 0, 0)

\* where a call that moved to `call` goes: an outside caller's settled call leaves
\* its outcome and frees the slot
Land(s, call, others) ==
    IF call.phase # "hook"
    THEN /\ calls' = DropCall(others, s)
         /\ last' = CallOutcome(call)
    ELSE /\ calls' = PutCall(others, s, call)
         /\ last' = IF s > Len(calls)
                    THEN Outcome("call", <<>>, <<>>, Void, FALSE, 0, 0)    \* the call began
                    ELSE last

\* a call begins: every call already in flight is no longer alone
Crowd == [s \in 1..Len(calls) |-> [calls[s] EXCEPT !.fresh = FALSE]]

StartCall(kind, c, owner) ==
    /\ CanCall
    /\ LET s == Len(calls) + 1
           call == NewCall(kind, c, owner)
       IN  Land(s, IF kind = "init"
                   THEN ServiceContainer_Initialize(call, services[c], TRUE)
                   ELSE ServiceContainer_Shutdown(call, services[c], TRUE),
                Crowd)

\* container.Initialize() called: runs to its first await
ContainerInitialize(c) ==
    /\ Alive
    /\ StartCall("init", c, "ext")
    /\ UNCHANGED <<services, Initialized, container, stackVars, appVars, consumed>>

\* container.Shutdown() called: runs to its first await
ContainerShutdown(c) ==
    /\ Alive
    /\ StartCall("shutdown", c, "ext")
    /\ UNCHANGED <<services, Initialized, container, stackVars, appVars, consumed>>

\* the calls cs once an init hook has completed: the shutdowns of the application
\* among them have seen a service initialized while they were in flight
Reinitialized(cs) ==
    [s \in 1..Len(cs) |-> IF cs[s].owner = "app" THEN [cs[s] EXCEPT !.reinit = TRUE]
                          ELSE cs[s]]

\* the hook a call awaits settles; Service.Initialize / Shutdown resumes, then the
\* container's loop resumes and runs to its next await or to its end
HookSettles(s, ok) ==
    /\ Alive
    /\ s <= Len(calls)
    /\ calls[s].owner = "ext"
    /\ calls[s].phase = "hook"
    /\ LET call == calls[s]
           i    == CallInst(call)
       IN  /\ Initialized' = [Initialized EXCEPT ![i] =
                                 IF call.kind = "init"
                                 THEN Service_Initialize(@, ok)
                                 ELSE Service_Shutdown(@, ok)]
           /\ Land(s, IF call.kind = "init"
                      THEN ServiceContainer_Initialize(call, services[call.c], ok)
                      ELSE ServiceContainer_Shutdown(call, services[call.c], ok),
                   IF call.kind = "init" /\ ok THEN Reinitialized(calls) ELSE calls)
    /\ UNCHANGED <<services, container, stackVars, appVars, consumed>>

\* ---------------------------------------------------------------- ServiceLocator
\* a plausible slip: the test of the current binding is missing
LocatorInitialize_Rebinds(cur, c) == [container |-> c, ret |-> Void]

ServiceLocator_Initialize(cur, c) ==
    IF cur # NoContainer
    THEN [container |-> cur, ret |-> Throw("LocatorAlreadyInitialized", "")]
    ELSE [container |-> c, ret |-> Void]

\* a plausible slip: an unbound locator falls back on the application's container
Get_Fallback(cur, svcs, init, id) ==
    LET r == ServiceContainer_Get(svcs[IF cur = NoContainer THEN AppContainer ELSE cur], id) IN
    IF r.kind = "throw" THEN r
    ELSE IF ~init[r.val] THEN Throw("ServiceNotInitialized", id)
    ELSE r

\* a plausible slip: the IsInitialized() test is missing
Get_SkipsReadyCheck(cur, svcs, init, id) ==
    IF cur = NoContainer
    THEN Throw("LocatorNotInitialized", "")
    ELSE ServiceContainer_Get(svcs[cur], id)

\* Get changes nothing: it is evaluated on the state it is called in
ServiceLocator_Get(cur, svcs, init, id) ==
    IF cur = NoContainer
    THEN Throw("LocatorNotInitialized", "")
    ELSE LET r == ServiceContainer_Get(svcs[cur], id) IN
         IF r.kind = "throw" THEN r
         ELSE IF ~init[r.val] THEN Throw("ServiceNotInitialized", id)
         ELSE r

LocatorInitialize(c) ==
    /\ Alive
    /\ LET r == ServiceLocator_Initialize(container, c) IN
       /\ container' = r.container
       /\ last' = Outcome("ServiceLocator.Initialize", <<c>>, <<>>, r.ret, FALSE, 0, 0)
    /\ UNCHANGED <<services, Initialized, calls, stackVars, appVars, consumed>>

SvcNext ==
    \/ \E c \in Registries, i \in Insts : Register(c, i)
    \/ \E c \in Registries : ContainerInitialize(c)
    \/ \E c \in Registries : ContainerShutdown(c)
    \/ \E s \in 1..MaxCalls, ok \in BOOLEAN : HookSettles(s, ok)
    \/ \E c \in Containers : LocatorInitialize(c)
    \/ \E c \in Registries, id \in Ids : ContainerGet(c, id)

SpecSvc == Init /\ [][SvcNext]_vars

\* ---------------------------------------------------------------- EventBus
\* EventBus.Initialize(emitFunction): binds, whatever was bound
EventBus_Initialize(cur, f) == f

\* a plausible slip: Emit returns quietly when nothing is bound
Emit_Silent(fn, isConsumed) ==
    IF fn = NoApp
    THEN [forwarded |-> <<>>, ret |-> Void]
    ELSE [forwarded |-> <<[fn |-> fn, consumed |-> isConsumed]>>, ret |-> Void]

\* EventBus.Emit(event): throws when nothing is bound, otherwise one call of the
\* bound function with the event.  The result lists the calls made to the bound
\* function, each with the envelope it passes (told by its consumed flag), and the
\* way Emit ends.
EventBus_Emit(fn, isConsumed) ==
    IF fn = NoApp
    THEN [forwarded |-> <<>>, ret |-> Throw("EventBusNotInitialized", "")]
    ELSE [forwarded |-> <<[fn |-> fn, consumed |-> isConsumed]>>, ret |-> Void]

\* ---------------------------------------------------------------- Application
\* the applications are told apart as the first one and the ones made after it
AppName(first) == IF first THEN "app1" ELSE "later"

\* a plausible slip: the locator is handed a container other than the one
\* RegisterService writes to
ContainerOf_Other(first) == "c2"

\* the ServiceContainer made by the field initializer of an application
ContainerOf(first) == IF first THEN AppContainer ELSE "c2"

\* the Name in the specification an application is made with
NameOf(first) == IF first THEN "App1" ELSE "App2"

\* Log.Initialize(specification) and Log.SetAppName(name): the Log takes the name
Log_Initialize(cur, name) == name

Log_SetAppName(cur, name) == name

\* new Application(specification): the field initializers, then Initialize(), which
\* binds the EventBus and then the ServiceLocator.  The state kept for an
\* application (running, the stack, the container) is that of the first one: a later
\* constructor throws in ServiceLocator.Initialize, and its object is never obtained.
NewApplication ==
    /\ Alive
    /\ apps' = IF apps = "none" THEN "one" ELSE "several"
    /\ specification' = IF apps = "none" THEN NameOf(TRUE) ELSE specification
    /\ logName' = Log_Initialize(logName, NameOf(apps = "none"))
    /\ emitFunction' = EventBus_Initialize(emitFunction, AppName(apps = "none"))
    /\ LET r == ServiceLocator_Initialize(container, ContainerOf(apps = "none")) IN
       /\ container' = r.container
       /\ running' = IF apps = "none" THEN TRUE ELSE running
       /\ last' = Outcome("new Application", <<AppName(apps = "none")>>, <<>>, r.ret,
                          FALSE, 0, 0)
    /\ UNCHANGED <<services, Initialized, calls, stackVars, consumed, pendingTicks,
                   exited, closed>>

Constructed == apps # "none"

\* the services and layers handed to the application
AppInsts  == {"x1", "y1"}
AppLayers == {"A", "B"}

\* what a layer's OnUpdate hook does in a pass made by the application
AppUpdateActs == {"nop"}

\* app.RegisterService(identifier, instance)
RegisterService(inst) ==
    /\ Constructed
    /\ Register(AppContainer, inst)

\* app.InitializeServices() is serviceContainer.Initialize() on this container and
\* nothing else: ContainerInitialize(AppContainer), explored in SpecSvc

AppPushLayer(l) ==
    /\ Constructed
    /\ Len(layers) < MaxAppLayers
    /\ PushLayer(l)

AppPushOverlay(l) ==
    /\ Constructed
    /\ Len(layers) < MaxAppLayers
    /\ PushOverlay(l)

\* a plausible slip: Tick never reads the running flag
Tick_IgnoresFlag(isRunning, st, beh) ==
    LET r == LayerStack_OnUpdate(st, beh) IN
    [st |-> r.st, hooks |-> r.visited, reent |-> r.reent, passes |-> 1, sched |-> 1,
     shutdown |-> FALSE]

\* Application.Tick: what it does to the stack, the update hooks it invokes, the
\* passes it makes, the Tick callbacks it queues, and whether it calls Shutdown()
Application_Tick(isRunning, st, beh) ==
    IF ~isRunning
    THEN [st |-> st, hooks |-> <<>>, reent |-> FALSE, passes |-> 0, sched |-> 0,
          shutdown |-> TRUE]
    ELSE LET r == LayerStack_OnUpdate(st, beh) IN
         [st |-> r.st, hooks |-> r.visited, reent |-> r.reent, passes |-> 1, sched |-> 1,
          shutdown |-> FALSE]

\* a plausible slip: Run queues the first Tick instead of calling it
Run_QueuesOnly(isRunning, st, beh) ==
    [running |-> TRUE,
     tick |-> [st |-> st, hooks |-> <<>>, reent |-> FALSE, passes |-> 0, sched |-> 1,
               shutdown |-> FALSE]]

\* Application.Run: this.running = true; this.Tick()
Application_Run(isRunning, st, beh) ==
    [running |-> TRUE, tick |-> Application_Tick(TRUE, st, beh)]

\* Application.Close: the new value of running
Application_Close(isRunning) == FALSE

\* a plausible slip: Shutdown() calls serviceContainer.Shutdown() without await
Awaits_Nothing(call) == FALSE

\* `await this.serviceContainer.Shutdown()`: Application.Shutdown stays suspended
\* while the promise of the container call is pending
Application_Awaits(call) == call.phase = "hook"

\* Application.Shutdown resumed after the await, call being the container call it
\* awaited: the pipeline shutdown in its try block, the status, process.exit.
\* A rejected call is rethrown by the await, outside the try block.
Application_Shutdown(call, st, thrower, nullish) ==
    IF call.phase = "rejected"
    THEN [st |-> st, hooks |-> <<>>, ret |-> Throw("HookError", call.err),
          pipeline |-> Return("not called"), exit |-> NoExit]
    ELSE LET r == LayerStack_Shutdown(st, thrower, nullish)
             \* try { this.layerStack.Shutdown(); layerStackSuccess = true; }
             \* catch { layerStackSuccess = false; }
             layerStackSuccess == r.ret.kind = "return"
         IN  [st |-> r.st, hooks |-> r.hooks, ret |-> Void, pipeline |-> r.ret,
              exit |-> IF layerStackSuccess THEN 0 ELSE 1]

\* Application.Shutdown as far as it gets once its container call has moved to `call`:
\* the continuation of the await is a microtask, it runs before anything else does
ShutdownProceeds(s, call, others, lastIfSuspended) ==
    IF Application_Awaits(call)
    THEN /\ calls' = PutCall(others, s, call)
         /\ last' = lastIfSuspended
         /\ UNCHANGED <<stackVars, exited>>
    ELSE \E way \in DetachWays(IF call.phase = "rejected" THEN 0 ELSE Len(layers)) :
            LET r == Application_Shutdown(call, Stack, way[1], way[2]) IN
            /\ calls' = IF call.phase = "hook" THEN PutCall(others, s, call)
                         ELSE DropCall(others, s)
            /\ SetStack(r.st)
            /\ pushed' = NotOnlyPushes(r.st)
            /\ exited' = r.exit
            /\ last' = Outcome("Application.Shutdown",
                               <<call.phase, r.pipeline.kind, r.pipeline.val,
                                 Bool(call.reinit)>>,
                               call.log \o r.hooks, r.ret, FALSE, Len(call.log), 0)

\* app.Run()
Run ==
    /\ Alive
    /\ Constructed
    /\ pendingTicks < MaxPending
    /\ \E beh \in Behaviours(AppUpdateActs) :
         LET r == Application_Run(running, Stack, beh) IN
         /\ running' = r.running
         /\ SetStack(r.tick.st)
         /\ pushed' = IF r.tick.reent THEN NotOnlyPushes(r.tick.st) ELSE pushed
         /\ pendingTicks' = pendingTicks + r.tick.sched
         /\ last' = Outcome("Run", <<Bool(running)>>, r.tick.hooks, Void, r.tick.reent,
                            r.tick.passes, r.tick.sched)
    /\ UNCHANGED <<svcVars, consumed, apps, exited, closed, emitFunction, nameVars>>

\* the event loop runs a Tick callback queued with setImmediate
Tick ==
    /\ Alive
    /\ pendingTicks > 0
    /\ \E beh \in Behaviours(AppUpdateActs) :
         LET r == Application_Tick(running, Stack, beh)
             tickOutcome == Outcome("Tick", <<Bool(running)>>, r.hooks, Void, r.reent,
                                    r.passes, r.sched)
         IN  /\ pendingTicks' = pendingTicks - 1 + r.sched
             /\ IF r.shutdown
                THEN /\ CanCall
                     /\ (\A l \in Layers : beh[l] = "nop")
                     /\ ShutdownProceeds(Len(calls) + 1,
                            ServiceContainer_Shutdown(NewCall("shutdown", AppContainer, "app"),
                                                      services[AppContainer], TRUE),
                            Crowd, tickOutcome)
                ELSE /\ SetStack(r.st)
                     /\ pushed' = IF r.reent THEN NotOnlyPushes(r.st) ELSE pushed
                     /\ last' = tickOutcome
                     /\ UNCHANGED <<calls, exited>>
    /\ UNCHANGED <<services, Initialized, container, consumed, apps, running, closed,
                   emitFunction, nameVars>>

\* app.Close()
Close ==
    /\ Alive
    /\ Constructed
    /\ running' = Application_Close(running)
    /\ closed' = TRUE
    /\ last' = Outcome("Close", <<Bool(running)>>, <<>>, Void, FALSE, 0, 0)
    /\ UNCHANGED <<svcVars, stackVars, consumed, apps, pendingTicks, exited, emitFunction,
                   nameVars>>

\* the shutdown hook that the container call of Application.Shutdown awaits settles;
\* Service.Shutdown resumes, then the container's loop, then Application.Shutdown
ShutdownHookSettles(s, ok) ==
    /\ Alive
    /\ s <= Len(calls)
    /\ calls[s].owner = "app"
    /\ calls[s].phase = "hook"
    /\ LET call == calls[s] IN
       /\ Initialized' = [Initialized EXCEPT ![CallInst(call)] = Service_Shutdown(@, ok)]
       /\ ShutdownProceeds(s, ServiceContainer_Shutdown(call, services[call.c], ok),
                           calls, last)
    /\ UNCHANGED <<services, container, consumed, apps, running, pendingTicks, closed,
                   emitFunction, nameVars>>

AppNext ==
    \/ NewApplication
    \/ \E i \in AppInsts : RegisterService(i)
    \/ \E l \in AppLayers : AppPushLayer(l)
    \/ \E l \in AppLayers : AppPushOverlay(l)
    \/ Run
    \/ Tick
    \/ Close
    \/ \E s \in 1..MaxCalls, ok \in BOOLEAN : ShutdownHookSettles(s, ok)

SpecApp == Init /\ [][AppNext]_vars

\* the event loop runs every queued setImmediate callback, and every shutdown hook
\* settles (it resolves or rejects: none hangs)
SpecAppFair ==
    /\ SpecApp
    /\ WF_vars(Tick)
    /\ WF_vars(\E s \in 1..MaxCalls, ok \in BOOLEAN : ShutdownHookSettles(s, ok))

\* ---------------------------------------------------------------- the singleton variant
\* what Application.Create reads and writes: the static instance, its specification
\* and running flag, the Log's name and the two global bindings
Singleton ==
    [instance |-> apps # "none", specification |-> specification, logName |-> logName,
     emitFunction |-> emitFunction, container |-> container, running |-> running]

\* a plausible slip: the test of the static instance is missing
Create_Reconstructs(a, name) ==
    LET r == ServiceLocator_Initialize(a.container, AppContainer) IN
    [app |-> [instance |-> r.ret.kind = "return", specification |-> name,
              logName |-> Log_Initialize(a.logName, name),
              emitFunction |-> EventBus_Initialize(a.emitFunction, AppName(TRUE)),
              container |-> r.container, running |-> TRUE],
     made |-> TRUE,
     ret |-> IF r.ret.kind = "return" THEN Return(AppName(TRUE)) ELSE r.ret]

\* Application.Create(specification): the private constructor (with Initialize) when
\* there is no instance, otherwise the instance takes the specification and the Log
\* the name.  made: a ServiceContainer and a LayerStack were created.
Application_Create(a, name) ==
    IF ~a.instance
    THEN LET r == ServiceLocator_Initialize(a.container, AppContainer) IN
         [app |-> [instance |-> r.ret.kind = "return", specification |-> name,
                   logName |-> Log_Initialize(a.logName, name),
                   emitFunction |-> EventBus_Initialize(a.emitFunction, AppName(TRUE)),
                   container |-> r.container, running |-> TRUE],
          made |-> TRUE,
          ret |-> IF r.ret.kind = "return" THEN Return(AppName(TRUE)) ELSE r.ret]
    ELSE [app |-> [a EXCEPT !.specification = name,
                            !.logName = Log_SetAppName(a.logName, name)],
          made |-> FALSE,
          ret |-> Return(AppName(TRUE))]

\* a ServiceContainer and a LayerStack made by a constructor are empty
Create(name) ==
    /\ Alive
    /\ LET r == Application_Create(Singleton, name) IN
       /\ apps' = IF r.app.instance THEN "one" ELSE apps
       /\ specification' = r.app.specification
       /\ logName' = r.app.logName
       /\ emitFunction' = r.app.emitFunction
       /\ container' = r.app.container
       /\ running' = r.app.running
       /\ services' = IF r.made THEN [services EXCEPT ![AppContainer] = <<>>] ELSE services
       /\ SetStack(IF r.made THEN [layers |-> <<>>, idx |-> 0] ELSE Stack)
       /\ pushed' = IF r.made
                    THEN [regular |-> <<>>, overlay |-> <<>>, only |-> TRUE]
                    ELSE pushed
       \* mark: 1 when a ServiceContainer and a LayerStack were created
       /\ last' = Outcome("Application.Create", <<name>>, <<>>, r.ret, FALSE,
                          IF r.made THEN 1 ELSE 0, 0)
    /\ UNCHANGED <<Initialized, calls, consumed, pendingTicks, exited, closed>>

SingletonNext ==
    \/ \E n \in Names : Create(n)
    \/ \E i \in AppInsts : RegisterService(i)
    \/ \E l \in AppLayers : AppPushLayer(l)
    \/ \E l \in AppLayers : AppPushOverlay(l)
    \/ Close

SpecSingleton == Init /\ [][SingletonNext]_vars

\* ---------------------------------------------------------------- the global bindings
\* a function bound by code other than an application (the mock of the tests)
MockFn == "mock"

\* the event hooks an application's layers run in this exploration
AppEventActs == {"nop", "Consume"}

\* a plausible slip: the event is put aside for the next tick, no hook runs now
EmitEvent_Deferred(st, isConsumed, beh) ==
    [st |-> st, consumed |-> isConsumed, visited |-> <<>>, reent |-> FALSE, by |-> 0,
     ret |-> Void]

\* app.EmitEvent(event): the layer stack of that application propagates the event
Application_EmitEvent(st, isConsumed, beh) == LayerStack_OnEvent(st, isConsumed, beh)

\* the bound function runs: the EmitEvent of the first application works on its layer
\* stack, that of a later one on the empty stack its field initializer made (no code
\* can reach that object to push on it), the mock only records the call
BoundFunction(fn, st, isConsumed, beh) ==
    IF fn = AppName(TRUE)
    THEN Application_EmitEvent(st, isConsumed, beh)
    ELSE LET none == [layers |-> <<>>, idx |-> 0]
             r == IF fn = AppName(FALSE)
                  THEN Application_EmitEvent(none, isConsumed, beh)
                  ELSE [consumed |-> isConsumed, visited |-> <<>>, reent |-> FALSE,
                        by |-> 0] IN
         [st |-> st, consumed |-> r.consumed, visited |-> r.visited,
          reent |-> r.reent, by |-> r.by]

\* EventBus.Initialize(mockEmitFn) called by code other than an application
BusInitialize ==
    /\ Alive
    /\ emitFunction' = EventBus_Initialize(emitFunction, MockFn)
    /\ last' = Outcome("EventBus.Initialize", <<MockFn>>, <<>>, Void, FALSE, 0, 0)
    /\ UNCHANGED <<svcVars, stackVars, consumed, apps, running, pendingTicks, exited,
                   closed, nameVars>>

\* EventBus.Emit(event) with the envelope in hand
Emit ==
    /\ Alive
    /\ LET e == EventBus_Emit(emitFunction, consumed) IN
       IF e.forwarded = <<>>
       THEN /\ last' = Outcome("EventBus.Emit", <<emitFunction, Bool(consumed)>>, <<>>,
                               e.ret, FALSE, 0, 0)
            /\ UNCHANGED <<stackVars, consumed>>
       ELSE \E beh \in Behaviours(AppEventActs) :
              LET f == e.forwarded[1]
                  r == BoundFunction(f.fn, Stack, f.consumed, beh) IN
              /\ SetStack(r.st)
              /\ consumed' = r.consumed
              /\ pushed' = IF r.reent THEN NotOnlyPushes(r.st) ELSE pushed
              \* mark: the position of the consuming layer; sched: the calls of the
              \* bound function
              /\ last' = Outcome("EventBus.Emit", <<emitFunction, Bool(consumed)>>,
                                 r.visited, e.ret, r.reent, r.by, Len(e.forwarded))
    /\ UNCHANGED <<svcVars, appVars>>

\* app.InitializeServices(): serviceContainer.Initialize() on the application's
\* container, awaited by its caller before the next one (overlapping calls are
\* explored in SpecSvc)
InitializeServices ==
    /\ Constructed
    /\ calls = <<>>
    /\ ContainerInitialize(AppContainer)

BusNext ==
    \/ NewApplication
    \/ BusInitialize
    \/ \E i \in AppInsts : RegisterService(i)
    \/ InitializeServices
    \/ \E s \in 1..MaxCalls, ok \in BOOLEAN : HookSettles(s, ok)
    \/ \E l \in AppLayers : AppPushLayer(l)
    \/ \E l \in AppLayers : AppPushOverlay(l)
    \/ NewEvent
    \/ Consume
    \/ Emit

SpecBus == Init /\ [][BusNext]_vars

\* ---------------------------------------------------------------- EventHandler
\* the Type of an event and the type a handler is registered for
EventTypes == {"Test", "UserRegistered"}

\* what a handler given to Handle does with the event: return false, return true,
\* call event.Consume() and return false, or throw
HandlerActs == {"false", "true", "Consume", "throw"}

\* a plausible slip: the test of event.Consumed() is missing
Handle_IgnoresConsumed(evType, isConsumed, type, handler) ==
    IF evType # type
    THEN [consumed |-> isConsumed, invoked |-> 0, ret |-> Void]
    ELSE IF handler = "throw"
    THEN [consumed |-> isConsumed, invoked |-> 1, ret |-> Throw("HandlerError", "")]
    ELSE [consumed |-> IF handler = "true" THEN Event_Consume(isConsumed)
                       ELSE isConsumed \/ handler = "Consume",
          invoked |-> 1, ret |-> Void]

\* new EventHandler(event).Handle(type, handler) on an event of Type evType:
\* the event's flag afterwards, the calls of the handler, how Handle ends
EventHandler_Handle(evType, isConsumed, type, handler) ==
    IF isConsumed \/ evType # type
    THEN [consumed |-> isConsumed, invoked |-> 0, ret |-> Void]
    ELSE IF handler = "throw"
    THEN [consumed |-> isConsumed, invoked |-> 1, ret |-> Throw("HandlerError", "")]
    ELSE LET afterHandler == IF handler = "Consume" THEN Event_Consume(isConsumed)
                             ELSE isConsumed IN
         [consumed |-> IF handler = "true" THEN Event_Consume(afterHandler)
                       ELSE afterHandler,
          invoked |-> 1, ret |-> Void]

\* Handle called on the envelope in hand; its Type is readonly and read by nothing
\* else, so it is drawn here
Handle(evType, type, handler) ==
    /\ Alive
    /\ LET r == EventHandler_Handle(evType, consumed, type, handler) IN
       /\ consumed' = r.consumed
       \* mark: the calls of the handler
       /\ last' = Outcome("EventHandler.Handle", <<evType, type, handler, Bool(consumed)>>,
                          <<>>, r.ret, FALSE, r.invoked, 0)
    /\ UNCHANGED <<svcVars, appVars, stackVars>>

\* the operations that touch an event, on the layers of an application
EventNext ==
    \/ NewApplication
    \/ \E l \in AppLayers : AppPushLayer(l)
    \/ \E l \in AppLayers : AppPushOverlay(l)
    \/ NewEvent
    \/ Consume
    \/ \E evType \in EventTypes, type \in EventTypes, handler \in HandlerActs :
         Handle(evType, type, handler)
    \/ OnEvent
    \/ Emit

SpecEvent == Init /\ [][EventNext]_vars

\* ---------------------------------------------------------------- Event categories
\* EventCategory: None = 0 and the flags 1 << 0 .. 1 << 6
CategoryFlags == 7

\* the values of a Category and of an argument of IsInCategory: any union of flags
Masks == 0..(2^CategoryFlags - 1)

\* a & b on the bits of two masks
RECURSIVE BitAnd(_, _)
BitAnd(a, b) ==
    IF a = 0 \/ b = 0 THEN 0
    ELSE (a % 2) * (b % 2) + 2 * BitAnd(a \div 2, b \div 2)

\* a plausible slip: the test asks for all the flags of the argument
IsInCategory_All(category, c) == BitAnd(category, c) = c

\* event.IsInCategory(c) on an event whose Category is category
Event_IsInCategory(category, c) == BitAnd(category, c) # 0

\* an event of some Category is in hand and a category is about to be asked for:
\* nothing else has happened yet
InitCategory ==
    /\ services = [c \in Containers |-> <<>>]
    /\ Initialized = [i \in Insts |-> FALSE]
    /\ calls = <<>>
    /\ container = NoContainer
    /\ emitFunction = NoApp
    /\ layers = <<>>
    /\ layerInsertIndex = 0
    /\ consumed = FALSE
    /\ apps = "none"
    /\ running = FALSE
    /\ pendingTicks = 0
    /\ exited = NoExit
    /\ closed = FALSE
    /\ specification = NoName
    /\ logName = DefaultLogName
    /\ pushed = [regular |-> <<>>, overlay |-> <<>>, only |-> TRUE]
    /\ \E category \in Masks, c \in Masks :
         last = Outcome("new Event", <<category, c>>, <<>>, Void, FALSE, 0, 0)

\* event.IsInCategory(c) called on the event in hand
IsInCategory ==
    /\ Alive
    /\ last.op = "new Event"
    /\ last' = Outcome("IsInCategory", last.arg, <<>>,
                       Return(Bool(Event_IsInCategory(last.arg[1], last.arg[2]))),
                       FALSE, 0, 0)
    /\ UNCHANGED <<svcVars, appVars, stackVars, consumed>>

CategoryNext == IsInCategory

SpecCategory == InitCategory /\ [][CategoryNext]_vars

\* ---------------------------------------------------------------- GetLayers
\* what a caller may be handed: the internal array itself or a copy of it
InternalArray == "this.layers"

\* GetLayers returns the private array object, not a copy
LayerStack_GetLayers(st) == [ref |-> InternalArray, val |-> st.layers]

GetLayers ==
    /\ Alive
    /\ LET r == LayerStack_GetLayers(Stack) IN
       last' = Outcome("GetLayers", <<>>, <<>>, Return(r.ref), FALSE, 0, 0)
    /\ UNCHANGED <<svcVars, appVars, stackVars, consumed>>

\* the caller reverses, in place, the array it has just been handed
ArrayReverse ==
    /\ Alive
    /\ last.op = "GetLayers"
    /\ layers' = IF last.ret.val = InternalArray THEN Reverse(layers) ELSE layers
    /\ pushed' = NotOnlyPushes([layers |-> layers', idx |-> layerInsertIndex])
    /\ last' = Outcome("Array.reverse", <<>>, <<>>, Return(last.ret.val), FALSE, 0, 0)
    /\ UNCHANGED <<svcVars, appVars, layerInsertIndex, consumed>>

InspectNext ==
    \/ \E l \in Layers : PushLayer(l)
    \/ \E l \in Layers : PushOverlay(l)
    \/ \E l \in Layers : PopLayer(l)
    \/ \E l \in Layers : PopOverlay(l)
    \/ OnUpdate
    \/ GetLayers
    \/ ArrayReverse

SpecInspect == Init /\ [][InspectNext]_vars

\* ---------------------------------------------------------------- hook counts
\* The same five calls with the OnAttach and OnDetach invocations counted per layer
\* object: pushed.owed[l] is the number of OnAttach calls made on l minus the number
\* of OnDetach calls made on l (nothing is counted before the first of these calls).
Count(s, l) == Cardinality({k \in 1..Len(s) : s[k] = l})

Owed(h, l) == IF "owed" \in DOMAIN h THEN h.owed[l] ELSE 0

\* the history h with the hooks of one call added: attached and detached are the
\* layers whose OnAttach and OnDetach the call invoked, in order
Counted(h, attached, detached) ==
    [regular |-> h.regular, overlay |-> h.overlay, only |-> h.only,
     owed |-> [l \in Layers |-> Owed(h, l) + Count(attached, l) - Count(detached, l)]]

\* the count is followed until a layer has been detached more often than attached
Balanced == \A l \in Layers : Owed(pushed, l) >= 0

\* this.layers.splice(...); this.layerInsertIndex++; layer.OnAttach()
CountedPushLayer(l) ==
    /\ Alive
    /\ Balanced
    /\ Len(layers) < MaxLayers
    /\ SetStack(LayerStack_PushLayer(Stack, l))
    /\ pushed' = Counted([pushed EXCEPT !.regular = Append(@, l)], <<l>>, <<>>)
    /\ last' = Outcome("PushLayer", <<l>>, <<l>>, Void, FALSE, 0, 0)
    /\ UNCHANGED <<svcVars, appVars, consumed>>

\* this.layers.push(overlay); overlay.OnAttach()
CountedPushOverlay(l) ==
    /\ Alive
    /\ Balanced
    /\ Len(layers) < MaxLayers
    /\ SetStack(LayerStack_PushOverlay(Stack, l))
    /\ pushed' = Counted([pushed EXCEPT !.overlay = Append(@, l)], <<l>>, <<>>)
    /\ last' = Outcome("PushOverlay", <<l>>, <<l>>, Void, FALSE, 0, 0)
    /\ UNCHANGED <<svcVars, appVars, consumed>>

\* layer.OnDetach() is called before the splice, whether or not it throws
CountedPopLayer(l) ==
    /\ Alive
    /\ Balanced
    /\ \E detachThrows \in BOOLEAN :
         LET r == LayerStack_PopLayer(Stack, l, detachThrows) IN
         /\ SetStack(r.st)
         /\ last' = Outcome("PopLayer", <<l>>, r.hooks, r.ret, FALSE, 0, 0)
         /\ pushed' = Counted(PopHistory(pushed, "regular", l, r), <<>>, r.hooks)
    /\ UNCHANGED <<svcVars, appVars, consumed>>

CountedPopOverlay(l) ==
    /\ Alive
    /\ Balanced
    /\ \E detachThrows \in BOOLEAN :
         LET r == LayerStack_PopOverlay(Stack, l, detachThrows) IN
         /\ SetStack(r.st)
         /\ last' = Outcome("PopOverlay", <<l>>, r.hooks, r.ret, FALSE, 0, 0)
         /\ pushed' = Counted(PopHistory(pushed, "overlay", l, r), <<>>, r.hooks)
    /\ UNCHANGED <<svcVars, appVars, consumed>>

\* for (const layer of this.layers) layer.OnDetach(), up to the call that throws
CountedShutdown ==
    /\ Alive
    /\ Balanced
    /\ \E way \in DetachWays(Len(layers)) :
         LET r == LayerStack_Shutdown(Stack, way[1], way[2]) IN
         /\ SetStack(r.st)
         /\ last' = Outcome("LayerStack.Shutdown", <<>>, r.hooks, r.ret, FALSE, way[1], 0)
         /\ pushed' = Counted(ShutdownHistory(pushed, r), <<>>, r.hooks)
    /\ UNCHANGED <<svcVars, appVars, consumed>>

HooksNext ==
    \/ \E l \in Layers : CountedPushLayer(l)
    \/ \E l \in Layers : CountedPushOverlay(l)
    \/ \E l \in Layers : CountedPopLayer(l)
    \/ \E l \in Layers : CountedPopOverlay(l)
    \/ CountedShutdown

SpecHooks == Init /\ [][HooksNext]_vars

\* ---------------------------------------------------------------- lifecycle
\* one application from construction to process exit: services registered and
\* initialized, layers pushed, the loop run and closed, the shutdown sequence
LifeNext ==
    \/ ~Constructed /\ NewApplication
    \/ \E i \in AppInsts : RegisterService(i)
    \/ InitializeServices
    \/ \E s \in 1..MaxCalls, ok \in BOOLEAN : HookSettles(s, ok)
    \/ AppPushLayer("A")
    \/ Run
    \/ Tick
    \/ Close
    \/ \E s \in 1..MaxCalls, ok \in BOOLEAN : ShutdownHookSettles(s, ok)

SpecLife == Init /\ [][LifeNext]_vars

\* ================================================================ claims

C2_FirstRegistrationKept ==
    [][/\ \A c \in Containers, id \in Ids :
            MapHas(services[c], id) =>
                ServiceContainer_Get(services'[c], id) = ServiceContainer_Get(services[c], id)
       /\ \A c \in Registries, i \in Insts :
            Register(c, i) =>
                IF MapHas(services[c], ClassOf(i))
                THEN services' = services
                ELSE /\ ServiceContainer_Get(services'[c], ClassOf(i)) = Return(i)
                     /\ services'[c] = Append(services[c], [id |-> ClassOf(i), inst |-> i])
      ]_vars

\* x2 was offered for X after x1: x1 is still bound
C2_Witness ==
    /\ last.op = "Register"
    /\ last.mark = 1
    /\ last.arg = <<"c1", "x2">>
    /\ ServiceContainer_Get(services["c1"], "X") = Return("x1")

\* C3: on a stack built by PushLayer and PushOverlay calls alone, a pass of OnUpdate
\* invokes the update hooks of the layers pushed with PushLayer, in the order pushed,
\* then of those pushed with PushOverlay, in the order pushed: each pushed entry once.
C3_UpdateOrder ==
    (last.op = "OnUpdate" /\ pushed.only) =>
        last.hooks = pushed.regular \o pushed.overlay

\* an overlay was pushed, then regular layers: the regular layers still come first
C3_Witness ==
    /\ last.op = "OnUpdate"
    /\ pushed.only
    /\ pushed.regular = <<"A", "B">>
    /\ pushed.overlay = <<"C">>
    /\ last.hooks = <<"A", "B", "C">>

\* C4: a pass of OnEvent in which no hook changes the stack visits the layers from the
\* last to the first (the reverse of the update order) and stops at consumption: an
\* envelope consumed on entry reaches no layer, the hook that consumes it is the last
\* one invoked, and an envelope nobody consumes reaches every layer.
C4_EventOrder ==
    (last.op = "OnEvent" /\ ~last.reent) =>
        LET n == Len(last.hooks)
            r == Reverse(layers)
        IN  /\ n <= Len(r)
            /\ last.hooks = SubSeq(r, 1, n)
            /\ last.ret = Void
            /\ last.arg = <<"true">> => n = 0
            /\ last.mark > 0 => last.mark = n
            /\ (last.arg = <<"false">> /\ last.mark = 0) => n = Len(r)
            /\ consumed <=> (last.arg = <<"true">> \/ last.mark > 0)

\* the middle layer of three consumed: the top two were visited, the bottom one was not
C4_Witness ==
    /\ last.op = "OnEvent"
    /\ ~last.reent
    /\ layers = <<"A", "B", "C">>
    /\ layerInsertIndex = 2
    /\ last.hooks = <<"C", "B">>
    /\ last.mark = 2

\* C5: when Application.Shutdown has terminated the process, the status is 0 if the
\* pipeline's Shutdown returned true, and 1 if it returned false (a detach hook threw)
\* or threw itself.
C5_ExitStatus ==
    (last.op = "Application.Shutdown" /\ exited # NoExit) =>
        exited = IF <<last.arg[2], last.arg[3]>> = <<"return", "true">> THEN 0 ELSE 1

\* C6 as stated: once Close has been called no update hook is invoked any more.
C6_NoUpdateAfterClose ==
    closed => ~(last.op \in {"Run", "Tick"} /\ last.hooks # <<>>)

\* C6: Close sets running to false and changes nothing else, invoking no hook; a Tick
\* that finds running false invokes no update hook, queues no Tick and starts
\* Application.Shutdown; a Tick makes an update pass only if it finds running true,
\* which after a Close takes a Run.
C6_CloseThenTick ==
    [][/\ Close => /\ ~running'
                   /\ last'.hooks = <<>>
                   /\ UNCHANGED <<svcVars, stackVars, consumed, apps, pendingTicks, exited,
                                  emitFunction>>
       /\ (Tick /\ ~running) =>
             /\ pendingTicks' = pendingTicks - 1
             /\ ~running'
             /\ \/ /\ last'.op = "Tick"
                   /\ last'.hooks = <<>>
                   /\ last'.mark = 0
                   /\ Len(calls') = Len(calls) + 1
                   /\ calls'[Len(calls')].owner = "app"
                \/ last'.op = "Application.Shutdown"
       /\ (Tick /\ last'.op = "Tick" /\ last'.mark > 0) => running
      ]_vars

\* the Tick after Close found running false: no update hook, no Tick queued, and
\* Application.Shutdown awaits the container
C6_Witness ==
    /\ closed
    /\ last.op = "Tick"
    /\ last.arg = <<"false">>
    /\ last.hooks = <<>>
    /\ layers # <<>>
    /\ pendingTicks = 0
    /\ \E s \in 1..Len(calls) : calls[s].owner = "app"

\* C7: when a shutdown hook of a service fails during Application.Shutdown, nothing
\* leaves Application.Shutdown and the process is terminated with status 1.
C7_ServiceFailureCaptured ==
    (last.op = "Application.Shutdown" /\ last.arg[1] = "rejected") =>
        (last.ret.kind = "return" /\ exited = 1)

\* C8: when Application.Shutdown calls the pipeline's Shutdown, its container call
\* has resolved, having invoked and awaited the shutdown hook of every registered
\* service, in order, before the first detach hook; and the process has exited only
\* through an Application.Shutdown that called the pipeline's Shutdown.
C8_ServicesBeforeLayers ==
    /\ (last.op = "Application.Shutdown" /\ last.arg[3] # "not called") =>
          /\ last.arg[1] = "resolved"
          /\ last.mark = Len(services[AppContainer])
          /\ SubSeq(last.hooks, 1, last.mark)
                = [j \in 1..last.mark |-> services[AppContainer][j].inst]
          /\ \A j \in (last.mark + 1)..Len(last.hooks) : last.hooks[j] \in Layers
    /\ exited # NoExit =>
          /\ last.op = "Application.Shutdown"
          /\ last.arg[3] # "not called"

\* two services were shut down, then two layers detached, then the process exited
C8_Witness ==
    /\ last.op = "Application.Shutdown"
    /\ last.arg = <<"resolved", "return", "true", "false">>
    /\ last.mark = 2
    /\ Len(last.hooks) = 4
    /\ exited = 0

\* C9: Run makes one update pass, over every layer, before it returns, and queues one
\* Tick; a Tick that finds running true makes one update pass and queues one Tick in
\* place of itself.
C9_OnePassPerStep ==
    [][/\ Run => /\ running'
                 /\ last'.op = "Run"
                 /\ last'.mark = 1
                 /\ last'.hooks = layers
                 /\ last'.sched = 1
                 /\ pendingTicks' = pendingTicks + 1
       /\ (Tick /\ running) =>
                 /\ running'
                 /\ last'.op = "Tick"
                 /\ last'.mark = 1
                 /\ last'.hooks = layers
                 /\ last'.sched = 1
                 /\ pendingTicks' = pendingTicks
      ]_vars

\* a Tick found running true: one pass over both layers, one Tick queued again
C9_Witness ==
    /\ last.op = "Tick"
    /\ last.arg = <<"true">>
    /\ last.hooks = <<"A", "B">>
    /\ last.mark = 1
    /\ pendingTicks = 1
    /\ running

\* C10: while the locator is unbound, Get fails with the locator's own "not
\* initialized" error for every identifier, whatever the containers hold.
C10_GetBeforeBinding ==
    container = NoContainer =>
        \A id \in Ids :
            ServiceLocator_Get(container, services, Initialized, id)
                = Throw("LocatorNotInitialized", "")

\* the locator is unbound while a container holds a registered, initialized service
C10_Witness ==
    /\ container = NoContainer
    /\ \E c \in Containers, id \in Ids :
         /\ MapHas(services[c], id)
         /\ Initialized[MapGet(services[c], id)]

\* C11 as stated: once the init hook of a registered service has completed, Get
\* returns the instance: a Get that returns keeps returning.
C11_OnceInitialized ==
    [][\A id \in Ids :
          ServiceLocator_Get(container, services, Initialized, id).kind = "return" =>
             ServiceLocator_Get(container', services', Initialized', id).kind = "return"
      ]_vars

\* C11: with the locator bound, Get for a registered service returns its instance
\* if the service's Initialized flag is set and fails with the "not initialized"
\* error otherwise; the flag is unset at first, is set by the completion of the
\* service's init hook and by nothing else, and is unset again by the completion of
\* its shutdown hook and by nothing else.
C11_GetFollowsInit ==
    [][\A id \in Ids :
          (container' # NoContainer /\ MapHas(services'[container'], id)) =>
             LET i      == MapGet(services'[container'], id)
                 after  == ServiceLocator_Get(container', services', Initialized', id)
                 hookDone(kind) == \E s \in 1..Len(calls) :
                                      /\ HookSettles(s, TRUE)
                                      /\ calls[s].kind = kind
                                      /\ CallInst(calls[s]) = i
             IN  /\ after = IF Initialized'[i] THEN Return(i)
                            ELSE Throw("ServiceNotInitialized", id)
                 /\ (~Initialized[i] /\ Initialized'[i]) => hookDone("init")
                 /\ (Initialized[i] /\ ~Initialized'[i]) => hookDone("shutdown")
                 /\ hookDone("init") => Initialized'[i]
                 /\ (\E s \in 1..Len(calls) :
                        HookSettles(s, FALSE) /\ CallInst(calls[s]) = i)
                      => Initialized'[i] = Initialized[i]
      ]_vars

\* x1 and y1 are registered in the bound container, the init hook of x1 has
\* completed and that of y1 is pending: Get(X) returns x1, Get(Y) fails
C11_Witness ==
    /\ container = "c1"
    /\ ServiceLocator_Get(container, services, Initialized, "X") = Return("x1")
    /\ ServiceLocator_Get(container, services, Initialized, "Y")
          = Throw("ServiceNotInitialized", "Y")
    /\ \E s \in 1..Len(calls) :
          /\ calls[s].kind = "init"
          /\ calls[s].phase = "hook"
          /\ CallInst(calls[s]) = "y1"

\* C12: PopLayer with a layer found at or after the insert index, PopOverlay with a
\* layer found before it, and either with a layer that is not in the array, change
\* neither the array nor the index, invoke no hook and return normally.
C12_WrongSidePop ==
    [][\A l \in Layers :
          LET index == IndexOf(layers, l) IN
          /\ (PopLayer(l) /\ (index = -1 \/ index >= layerInsertIndex)) =>
                /\ layers' = layers
                /\ layerInsertIndex' = layerInsertIndex
                /\ last'.hooks = <<>>
                /\ last'.ret = Void
          /\ (PopOverlay(l) /\ (index = -1 \/ index < layerInsertIndex)) =>
                /\ layers' = layers
                /\ layerInsertIndex' = layerInsertIndex
                /\ last'.hooks = <<>>
                /\ last'.ret = Void
      ]_vars

\* PopLayer was called with the overlay A: A is still there, nothing was detached
C12_Witness ==
    /\ last.op = "PopLayer"
    /\ last.arg = <<"A">>
    /\ last.hooks = <<>>
    /\ last.ret = Void
    /\ layers = <<"B", "A">>
    /\ layerInsertIndex = 1

C14_EmptyAfterShutdown ==
    (last.op = "LayerStack.Shutdown" /\ last.ret.kind = "return") =>
        (layers = <<>> /\ layerInsertIndex = 0)

\* C14: when LayerStack.Shutdown returns true it has invoked OnDetach once for every
\* entry of the array, in order, the array is empty and the insert index is zero;
\* when it returns false a hook threw, the hooks after it were not invoked and the
\* array and the index are as they were.
C14_ShutdownDetachesAll ==
    [][StackShutdown =>
          /\ last'.ret = Return("true") =>
                /\ last'.hooks = layers
                /\ layers' = <<>>
                /\ layerInsertIndex' = 0
          /\ last'.ret = Return("false") =>
                /\ last'.mark \in 1..Len(layers)
                /\ last'.hooks = SubSeq(layers, 1, last'.mark)
                /\ layers' = layers
                /\ layerInsertIndex' = layerInsertIndex
      ]_vars

\* Shutdown returned true after detaching two layers and an overlay
C14_Witness ==
    /\ last.op = "LayerStack.Shutdown"
    /\ last.ret = Return("true")
    /\ last.hooks = <<"A", "B", "C">>
    /\ layers = <<>>
    /\ layerInsertIndex = 0

\* C15: LayerStack.Shutdown always returns: true when no OnDetach call threw, false
\* when one did.
C15_ShutdownNeverThrows ==
    last.op = "LayerStack.Shutdown" =>
        last.ret = Return(IF last.mark = 0 THEN "true" ELSE "false")

\* C16: ServiceLocator.Initialize on an unbound locator binds the container it is
\* given and returns; on a bound locator it throws the "already initialized" error
\* and the binding stays; no step changes a binding once made.
C16_LocatorWriteOnce ==
    [][/\ \A c \in Containers :
            LocatorInitialize(c) =>
               IF container = NoContainer
               THEN container' = c /\ last'.ret = Void
               ELSE /\ container' = container
                    /\ last'.ret = Throw("LocatorAlreadyInitialized", "")
       /\ container # NoContainer => container' = container
      ]_vars

\* the locator bound to c1 was given c2: the call threw, c1 is still bound
C16_Witness ==
    /\ last.op = "ServiceLocator.Initialize"
    /\ last.arg = <<"c2">>
    /\ last.ret = Throw("LocatorAlreadyInitialized", "")
    /\ container = "c1"

\* C17: a Register call for an identifier that is already bound throws the "already
\* registered" error.
C17_DuplicateRegisterThrows ==
    (last.op = "Register" /\ last.mark = 1) =>
        last.ret = Throw("ServiceAlreadyRegistered", ClassOf(last.arg[2]))

C19_GetBoundOrNotFound ==
    [][\A c \in Registries, id \in Ids :
         ContainerGet(c, id) =>
           LET m == services[c]
               bound == {m[k].inst : k \in {j \in 1..Len(m) : m[j].id = id}} IN
           /\ last'.op = "ServiceContainer.Get"
           /\ IF bound = {}
              THEN last'.ret = Throw("ServiceNotFound", id)
              ELSE /\ last'.ret.kind = "return"
                   /\ last'.ret.val \in bound
                   /\ last'.ret.val # NoInst
           /\ UNCHANGED <<services, Initialized, calls, container>>
    ]_vars

\* both cases have happened on one container: Get returned the instance bound to Y
\* while nothing is bound to X
C19_Witness ==
    /\ last.op = "ServiceContainer.Get"
    /\ last.arg = <<"c1", "Y">>
    /\ last.ret = Return("y1")
    /\ ~MapHas(services["c1"], "X")

\* C20: when `new Application` returns, the EventBus is bound to that application's
\* EmitEvent and the ServiceLocator to its ServiceContainer; and for as long as that is
\* the only construction and no other code rebinds the bus, ServiceLocator.Get
\* resolves against the entries that this application's RegisterService wrote (not
\* found when none, the instance once it is initialized) and EventBus.Emit(e) is one
\* LayerStack.OnEvent pass of e over this application's layers, from the top one.
C20_BindingsPointAtApplication ==
    [][/\ (NewApplication /\ last'.ret.kind = "return")
            => /\ emitFunction' = AppName(TRUE)
               /\ container' = AppContainer
       /\ (apps = "one" /\ emitFunction = AppName(TRUE))
            => /\ container = AppContainer
               /\ \A i \in AppInsts :
                    RegisterService(i) =>
                      ServiceLocator_Get(container', services', Initialized', ClassOf(i)).val
                         # "ServiceNotFound"
               /\ \A id \in Ids :
                    LET m == services[AppContainer]
                        bound == {m[k].inst : k \in {j \in 1..Len(m) : m[j].id = id}}
                        got == ServiceLocator_Get(container, services, Initialized, id) IN
                    IF bound = {} THEN got = Throw("ServiceNotFound", id)
                    ELSE IF \E b \in bound : Initialized[b]
                    THEN got.kind = "return" /\ got.val \in bound
                    ELSE got = Throw("ServiceNotInitialized", id)
               /\ Emit =>
                    /\ \E beh \in Behaviours(AppEventActs) :
                         LET r == LayerStack_OnEvent(Stack, consumed, beh) IN
                         /\ last'.hooks = r.visited
                         /\ consumed' = r.consumed
                    /\ (~consumed /\ layers # <<>>)
                          => /\ last'.hooks # <<>>
                             /\ last'.hooks[1] = layers[Len(layers)]
    ]_vars

\* one application, a service registered through it and initialized is what the
\* locator returns, and an emitted event has just gone through its two layers
C20_Witness ==
    /\ apps = "one"
    /\ emitFunction = AppName(TRUE)
    /\ ServiceLocator_Get(container, services, Initialized, "X") = Return("x1")
    /\ last.op = "EventBus.Emit"
    /\ Len(last.hooks) = 2
    /\ last.hooks[1] = layers[Len(layers)]

\* C21: a `new Application` evaluated while a first application exists returns (it
\* does not throw) and so yields a second, independent instance.
C21_SecondConstructionSucceeds ==
    [][(NewApplication /\ apps # "none") => last'.ret.kind = "return"]_vars

\* C22: an Application.Create call made when the instance exists returns that
\* instance, gives it the new specification and the Log the new name, and changes
\* nothing else: no ServiceContainer or LayerStack is created, the bus and the locator
\* keep their bindings, Running, the registered services and the layers stay as they are.
C22_CreateAgainOnlyRenames ==
    [][\A n \in Names :
         (Create(n) /\ apps # "none") =>
            /\ last'.ret = Return(AppName(TRUE))
            /\ last'.mark = 0
            /\ specification' = n
            /\ logName' = n
            /\ UNCHANGED <<apps, emitFunction, container, running, services, Initialized,
                           calls, layers, layerInsertIndex, pendingTicks, exited>>
    ]_vars

\* a second Create renamed an application that has a service, a layer and was closed
C22_Witness ==
    /\ last.op = "Application.Create"
    /\ last.mark = 0
    /\ specification = "App2"
    /\ logName = "App2"
    /\ ~running
    /\ layers # <<>>
    /\ services[AppContainer] # <<>>

\* C23: the Initialized flag of a service changes only when one of its hooks completes:
\* it is true right after its init hook completed inside Service.Initialize, false
\* right after its shutdown hook completed inside Service.Shutdown, and as it was
\* after a hook that failed; so it stays false from construction until an init hook
\* of the service has completed.
C23_FlagFollowsHooks ==
    [][\A i \in Insts :
         /\ Initialized'[i] # Initialized[i]
              => \E s \in 1..Len(calls) :
                   /\ HookSettles(s, TRUE)
                   /\ CallInst(calls[s]) = i
         /\ \A s \in 1..Len(calls) :
              /\ (HookSettles(s, TRUE) /\ CallInst(calls[s]) = i)
                   => Initialized'[i] = (calls[s].kind = "init")
              /\ (HookSettles(s, FALSE) /\ CallInst(calls[s]) = i)
                   => Initialized'[i] = Initialized[i]
    ]_vars

\* a shutdown call has run to its end over a service that an init call had
\* initialized: its flag is false again
C23_Witness ==
    /\ last.op = "ServiceContainer.Shutdown"
    /\ last.ret = Void
    /\ last.hooks = <<"x1">>
    /\ last.arg[2] = "false"
    /\ ~Initialized["x1"]

\* C24: the Consumed flag of an event never goes back to false: whatever Consume,
\* EventHandler.Handle, LayerStack.OnEvent or EventBus.Emit do to a consumed event,
\* it is consumed afterwards (only a new event starts unconsumed).
C24_ConsumedMonotonic ==
    [][(consumed /\ ~consumed') => NewEvent]_vars

\* a consumed event has just been through Handle with a matching type and is still
\* consumed
C24_Witness ==
    /\ last.op = "EventHandler.Handle"
    /\ last.arg[1] = last.arg[2]
    /\ last.arg[4] = "true"
    /\ consumed

\* C25 as stated: Handle(type, handler) calls the handler exactly once if and only if
\* the event is not consumed and its Type is the given type; the event becomes
\* consumed if and only if the handler was called and returned true, and otherwise
\* it is left as it was.
C25_ConsumedIffReturnedTrue ==
    last.op = "EventHandler.Handle" =>
        LET was      == last.arg[4] = "true"
            returned == last.mark = 1 /\ last.arg[3] = "true" IN
        /\ last.mark \in {0, 1}
        /\ (last.mark = 1) <=> (~was /\ last.arg[1] = last.arg[2])
        /\ (consumed /\ ~was) <=> returned
        /\ ~returned => consumed = was

\* C25 amended: Handle(type, handler) calls the handler exactly once if and only if
\* the event is not consumed and its Type is the given type; the event is consumed
\* afterwards if the handler was called and returned true, it is left as it was if
\* the handler was not called, and if the handler was called and did not return true
\* it is as the handler left it (consumed only if the handler called Consume()).
C25_HandleOnceConsumesOnTrue ==
    last.op = "EventHandler.Handle" =>
        LET was     == last.arg[4] = "true"
            handler == last.arg[3] IN
        /\ last.mark \in {0, 1}
        /\ (last.mark = 1) <=> (~was /\ last.arg[1] = last.arg[2])
        /\ (last.mark = 1 /\ handler = "true") => consumed
        /\ last.mark = 0 => consumed = was
        /\ (last.mark = 1 /\ handler # "true") => (consumed <=> handler = "Consume")

\* the handler was called on an unconsumed event of the given type and returned true
C25_Witness ==
    /\ last.op = "EventHandler.Handle"
    /\ last.arg = <<"Test", "Test", "true", "false">>
    /\ last.mark = 1
    /\ consumed

\* C26: IsInCategory(c) is true exactly when some flag is both in the event's
\* Category and in c; so it is false for c = None and for an event of Category None.
C26_SharesAFlag ==
    last.op = "IsInCategory" =>
        LET shared == {k \in 0..(CategoryFlags - 1) :
                          /\ (last.arg[1] \div 2^k) % 2 = 1
                          /\ (last.arg[2] \div 2^k) % 2 = 1} IN
        /\ (last.ret = Return("true")) <=> (shared # {})
        /\ (last.ret = Return("false")) <=> (shared = {})
        /\ (last.arg[1] = 0 \/ last.arg[2] = 0) => last.ret = Return("false")

\* an event of Category Input | Mouse asked for Input | Keyboard: true, they share Input
C26_Witness ==
    /\ last.op = "IsInCategory"
    /\ last.arg = <<10, 6>>
    /\ last.ret = Return("true")

\* C27 as stated: in every reachable state at most one service init hook is in
\* progress; two services are never initializing concurrently.
C27_NeverTwoInitializing ==
    \A s, t \in 1..Len(calls) :
        (calls[s].kind = "init" /\ calls[t].kind = "init")
            => CallInst(calls[s]) = CallInst(calls[t])

\* C27 amended: within each ServiceContainer.Initialize call at most one init hook is
\* in progress: the call starts with the hook of the first registered service, starts
\* the hook of the next registered service only when the hook it awaits has completed,
\* and starts none after a hook that failed; so the hooks it has started are those of
\* the first registrations, in order.  (Calls that overlap each run such a chain.)
C27_OneHookPerCall ==
    [][/\ \A s \in 1..Len(calls) :
            LET call == calls[s]
                m    == services[call.c] IN
            call.kind = "init" =>
              /\ (HookSettles(s, TRUE) /\ call.idx < Len(m))
                    => /\ Len(calls') = Len(calls)
                       /\ calls'[s].log = Append(call.log, m[call.idx + 1].inst)
              /\ (HookSettles(s, TRUE) /\ call.idx >= Len(m))
                    => /\ Len(calls') = Len(calls) - 1
                       /\ last'.hooks = call.log
                       /\ last'.ret = Void
              /\ HookSettles(s, FALSE)
                    => /\ Len(calls') = Len(calls) - 1
                       /\ last'.hooks = call.log
                       /\ last'.ret.kind = "throw"
       /\ \A c \in Registries :
            (ContainerInitialize(c) /\ services[c] # <<>>)
                => /\ Len(calls') = Len(calls) + 1
                   /\ calls'[Len(calls')].log = <<services[c][1].inst>>
       /\ \A s \in 1..Len(calls') :
            calls'[s].kind = "init"
                => /\ calls'[s].phase = "hook"
                   /\ Len(calls'[s].log) = calls'[s].idx
                   /\ \A k \in 1..calls'[s].idx :
                        calls'[s].log[k] = services'[calls'[s].c][k].inst
    ]_vars

\* two Initialize calls overlap, each awaiting one hook: the first one has moved on
\* to the second service while the second one awaits the first service
C27_Witness ==
    /\ Len(calls) = 2
    /\ calls[1].kind = "init"
    /\ calls[2].kind = "init"
    /\ calls[1].log = <<"x1", "y1">>
    /\ calls[2].log = <<"x1">>

\* C28: a ServiceContainer.Shutdown call invokes the shutdown hooks in registration
\* order, one at a time: it starts with the hook of the first registered service,
\* starts the hook of the next one only when the hook it awaits has completed, and
\* the hooks it has started are those of the first registrations, in order.
C28_ShutdownInOrder ==
    [][/\ \A s \in 1..Len(calls) :
            LET call == calls[s]
                m    == services[call.c] IN
            call.kind = "shutdown" =>
              /\ (HookSettles(s, TRUE) /\ call.idx < Len(m))
                    => /\ Len(calls') = Len(calls)
                       /\ calls'[s].log = Append(call.log, m[call.idx + 1].inst)
              /\ (HookSettles(s, TRUE) /\ call.idx >= Len(m))
                    => /\ Len(calls') = Len(calls) - 1
                       /\ last'.hooks = call.log
                       /\ last'.ret = Void
              /\ HookSettles(s, FALSE)
                    => /\ Len(calls') = Len(calls) - 1
                       /\ last'.hooks = call.log
                       /\ last'.ret.kind = "throw"
       /\ \A c \in Registries :
            (ContainerShutdown(c) /\ services[c] # <<>>)
                => /\ Len(calls') = Len(calls) + 1
                   /\ calls'[Len(calls')].log = <<services[c][1].inst>>
       /\ \A s \in 1..Len(calls') :
            calls'[s].kind = "shutdown"
                => /\ calls'[s].phase = "hook"
                   /\ Len(calls'[s].log) = calls'[s].idx
                   /\ \A k \in 1..calls'[s].idx :
                        calls'[s].log[k] = services'[calls'[s].c][k].inst
    ]_vars

\* a Shutdown call has resolved after the hooks of two services, in registration order
C28_Witness ==
    /\ last.op = "ServiceContainer.Shutdown"
    /\ last.ret = Void
    /\ Len(last.hooks) = 2
    /\ \A k \in 1..2 : last.hooks[k] = services[last.arg[1]][k].inst

\* C29: after any sequence of PushLayer, PushOverlay, PopLayer, PopOverlay and
\* Shutdown calls, the cut is between 0 and the length of the sequence, the entries
\* before the cut are the layers pushed with PushLayer and not removed since, in push
\* order, and the entries from the cut on are the layers pushed with PushOverlay and
\* not removed since, in push order.
C29_PartitionAtCut ==
    /\ 0 <= layerInsertIndex
    /\ layerInsertIndex <= Len(layers)
    /\ SubSeq(layers, 1, layerInsertIndex) = pushed.regular
    /\ SubSeq(layers, layerInsertIndex + 1, Len(layers)) = pushed.overlay

\* a PopLayer call has just taken a layer out from between two others, with an
\* overlay behind them
C29_Witness ==
    /\ last.op = "PopLayer"
    /\ last.hooks # <<>>
    /\ last.ret = Void
    /\ layerInsertIndex = 1
    /\ Len(layers) = 2
    /\ pushed.regular = <<layers[1]>>
    /\ pushed.overlay = <<layers[2]>>

\* C30: once a forwarding function is bound in the EventBus, no later
\* EventBus.Initialize call changes which function Emit invokes.
C30_BusBoundOnce ==
    [][emitFunction # NoApp => emitFunction' = emitFunction]_vars

\* C31: when EventBus.Emit(e), bound to an application's EmitEvent, returns, the
\* event hooks of that application's layers have been invoked from the top layer
\* down, and the pass has either reached the bottom layer or stopped at the hook that
\* consumed e (or at once, e being consumed already); nothing is queued for later.
C31_EmitCompletesPass ==
    [][(Emit /\ emitFunction = AppName(TRUE)) =>
          LET down == Reverse(layers)
              n    == Len(last'.hooks) IN
          /\ last'.ret = Void
          /\ n <= Len(layers)
          /\ last'.hooks = SubSeq(down, 1, n)
          /\ n = Len(layers) \/ consumed'
          /\ n < Len(layers) => (consumed \/ last'.mark = n)
          /\ consumed => n = 0
          /\ UNCHANGED <<pendingTicks, calls, layers, layerInsertIndex>>
    ]_vars

\* a pass over two layers stopped at the first hook, which consumed the event
C31_Witness ==
    /\ last.op = "EventBus.Emit"
    /\ last.arg = <<AppName(TRUE), "false">>
    /\ Len(layers) = 2
    /\ last.hooks = <<layers[2]>>
    /\ last.mark = 1
    /\ consumed

\* C32: between the first and the last hook invocation of one LayerStack.OnUpdate or
\* LayerStack.OnEvent pass, no PushLayer, PushOverlay, PopLayer, PopOverlay or
\* Shutdown takes effect on the layer sequence.
C32_PassIsAtomic ==
    last.op \in {"OnUpdate", "OnEvent"} => ~last.reent

\* C33: the list returned by LayerStack.GetLayers is a snapshot: changing it does not
\* change the layer sequence the pipeline's own operations work on.
C33_ResultIsSnapshot ==
    [][ArrayReverse => layers' = layers]_vars

\* C34: once Close() has been called after Run() and a tick is pending, and every
\* service shutdown hook and layer detach hook terminates, the process is eventually
\* terminated (unless Run() sets Running again first).
C34_CloseLeadsToExit ==
    (closed /\ ~running /\ pendingTicks > 0) ~> (exited # NoExit \/ running)

\* C35: for any interleaving of Run() calls, Close() calls and scheduled ticks on one
\* Application, the shutdown sequence is started at most once: there are never two
\* Application.Shutdown calls in flight.
C35_ShutdownStartedOnce ==
    Cardinality({s \in 1..Len(calls) : calls[s].owner = "app"}) <= 1

\* C36: for every layer, after any sequence of PushLayer, PushOverlay, PopLayer,
\* PopOverlay and Shutdown calls, the number of detach-hook invocations on that layer
\* never exceeds the number of attach-hook invocations on it.
C36_DetachNeverExceedsAttach ==
    \A l \in Layers : Owed(pushed, l) >= 0

\* C37: after any sequence of Application constructions, the registry bound in
\* ServiceLocator and the forwarding function bound in EventBus belong to the same
\* Application instance.
C37_BindingsOfOneApplication ==
    [][NewApplication =>
          \E first \in BOOLEAN :
             /\ emitFunction' = AppName(first)
             /\ container' = ContainerOf(first)]_vars

\* C38: when a layer's detach hook throws during LayerStack.Shutdown(), the pass
\* aborts at that layer: the detach hooks invoked are those of the layers up to and
\* including it, none of a later layer, the call does not report success, and the
\* sequence and the cut index are exactly as they were before the call.
C38_ShutdownAbortsAtThrow ==
    [][(StackShutdown /\ last'.mark > 0) =>
          /\ last'.hooks = SubSeq(layers, 1, last'.mark)
          /\ last'.ret # Return("true")
          /\ layers' = layers
          /\ layerInsertIndex' = layerInsertIndex]_vars

\* a Shutdown over three layers whose second detach hook threw: one layer detached
\* before it, one layer after it left alone, all three still in the sequence
C38_Witness ==
    /\ last.op = "LayerStack.Shutdown"
    /\ last.mark = 2
    /\ Len(last.hooks) = 2
    /\ Len(layers) = 3
    /\ layerInsertIndex > 0

\* C39 (as stated): once the shutdown hooks of the services have completed, no
\* service can be obtained any more: when the detach hooks of an application
\* shutdown run, ServiceLocator.Get fails for every identifier.
C39_NoServiceAtDetach ==
    (last.op = "Application.Shutdown" /\ Len(last.hooks) > last.mark) =>
        \A id \in Ids : ServiceLocator_Get(container, services, Initialized, id).kind = "throw"

\* C39 (amended): when a service's shutdown hook completes, ServiceLocator.Get for
\* that service fails with the before-it-was-initialized error, and it goes on
\* failing until an init hook of that service completes again; so the detach hooks
\* of an application shutdown during which no init hook completed can obtain no
\* service through ServiceLocator.Get.
C39_ShutDownUntilReinitialized ==
    [][/\ \A s \in 1..MaxCalls :
            (\/ HookSettles(s, TRUE) /\ calls[s].kind = "shutdown"
             \/ ShutdownHookSettles(s, TRUE))
              => LET i == CallInst(calls[s]) IN
                 /\ ~Initialized'[i]
                 /\ \A id \in Ids :
                      (/\ container' # NoContainer
                       /\ ServiceContainer_Get(services'[container'], id) = Return(i))
                        => ServiceLocator_Get(container', services', Initialized', id)
                              = Throw("ServiceNotInitialized", id)
       /\ \A i \in Insts :
            (~Initialized[i] /\ Initialized'[i])
              => \E s \in 1..Len(calls) :
                    /\ calls[s].kind = "init"
                    /\ HookSettles(s, TRUE)
                    /\ CallInst(calls[s]) = i
       /\ (/\ last'.op = "Application.Shutdown"
           /\ Len(last'.hooks) > last'.mark
           /\ last'.arg[4] = "false")
            => \A id \in Ids :
                 ServiceLocator_Get(container', services', Initialized', id).kind = "throw"
      ]_vars

\* an application shutdown over a service that had been initialized: its shutdown
\* hook completed, a detach hook ran, and Get for it reports it as not initialized
C39_Witness ==
    /\ last.op = "Application.Shutdown"
    /\ last.mark > 0
    /\ Len(last.hooks) > last.mark
    /\ last.arg[4] = "false"
    /\ \E id \in Ids :
         ServiceLocator_Get(container, services, Initialized, id)
            = Throw("ServiceNotInitialized", id)

\* C40: in a LayerStack.OnUpdate pass over distinct layers, a layer whose update hook
\* removes that same layer from the pipeline (PopLayer on a regular layer, PopOverlay
\* on an overlay) makes the pass step over the layer that immediately followed it,
\* whose update hook is not invoked in that pass; every other layer has its update
\* hook invoked exactly once, in sequence order.
C40_SelfRemovalSkipsNext ==
    (\A j, k \in 1..Len(layers) : j # k => layers[j] # layers[k]) =>
      \A beh \in Behaviours(UpdateActs) :
        LET n == Len(layers)
            removes(k) == \/ beh[layers[k]] = "PopLayer" /\ k <= layerInsertIndex
                          \/ beh[layers[k]] = "PopOverlay" /\ k > layerInsertIndex
            \* the places whose hook is invoked: the first one, and each one not
            \* right after a place that was invoked and removed itself
            V == CHOOSE W \in SUBSET (1..n) :
                    \A k \in 1..n :
                       k \in W <=> (k = 1 \/ ~(k - 1 \in W /\ removes(k - 1)))
            r == LayerStack_OnUpdate(Stack, beh)
        IN  /\ Len(r.visited) = Cardinality(V)
            /\ \A k \in V : r.visited[Cardinality({j \in V : j <= k})] = layers[k]

\* a pass over [A, B, C] in which A removed itself: B was stepped over, C was visited
C40_Witness ==
    /\ last.op = "OnUpdate"
    /\ last.reent
    /\ last.hooks = <<"A", "C">>
    /\ layers = <<"B", "C">>

====
